---- MODULE Spec2Model ----
(***************************************************************************)
(* Health-Optimizer ingestion pipeline: IngestionService                   *)
(* (backend/ingestion/services.py), AdapterRegistry                        *)
(* (backend/ingestion/adapters/base.py), the persisted models              *)
(* (backend/core/models.py) and DailySummaryService                        *)
(* (backend/core/services.py).                                             *)
(*                                                                         *)
(* The database is PostgreSQL (backend/check_db.py): statements of one     *)
(* transaction.atomic() block see the committed rows and the block's own   *)
(* uncommitted rows (READ COMMITTED); the block's rows become visible to   *)
(* others when the block exits.                                            *)
(***************************************************************************)
EXTENDS Integers, Sequences, FiniteSets, TLC

\* ------------------------------------------------------------------------
\* Bounds
\* ------------------------------------------------------------------------
MaxCalls == 2          \* ingestion calls started in one behaviour
MaxRebuilds == 3       \* stand-alone summary rebuilds in one behaviour
MaxSamples == 3        \* entries of a steps file
MaxRows == 2           \* rows of a UserSleepScores file
FileLen == 10          \* entries of a sleep or active-minutes file

\* ------------------------------------------------------------------------
\* Values
\* ------------------------------------------------------------------------
NoneInt == -1          \* Python None in a numeric, date or datetime field
NoneStr == "None"      \* Python None in a string field
FixedBatchId == 0      \* batch id an adapter instance was constructed with

\* errors kept on the import log (services.py:168)
ErrorCap == 100

Procs == {1, 2}        \* callers, each running one ingestion call at a time
Users == {"u1", "u2"}
Dates == {1, 2}

\* AdapterRegistry._adapters, in registration order
_adapters == <<"fitbit", "oura">>

Paths == {"fitbit_export", "shared_export", "oura_export", "notes.txt"}

\* the source argument of ingest_file: absent, registered, not registered
Sources == {NoneStr, "fitbit", "garmin"}

\* adapter instances a caller hands to ingest_from_adapter
AdapterInstances ==
    { [SOURCE_NAME |-> "fitbit", batch_id |-> NoneInt],
      [SOURCE_NAME |-> "oura",   batch_id |-> FixedBatchId] }

\* BaseAdapter.can_handle of each registered adapter
can_handle(a, path) ==
    \/ a = "fitbit" /\ path \in {"fitbit_export", "shared_export",
                                  "activity_export", "sleep_export"}
    \/ a = "oura"   /\ path \in {"shared_export", "oura_export"}

\* ------------------------------------------------------------------------
\* ParsedRecord and ParseResult
\* ------------------------------------------------------------------------
\* ParsedRecord.metadata: the keys the pipeline reads, None where a record
\* does not carry them
NoMetadata ==
    [protein_g |-> NoneInt, carbs_g |-> NoneInt, fat_g |-> NoneInt,
     records_count |-> NoneInt, activity_level |-> NoneStr]

ParsedRecord(rt, src, mt, v, ts, d, lid, st, dur) ==
    [record_type |-> rt, source |-> src, metric_type |-> mt, value |-> v,
     timestamp |-> ts, date |-> d, source_log_id |-> lid,
     start_time |-> st, duration_minutes |-> dur, metadata |-> NoMetadata]

\* the daily nutrition record of _parse_food_logs_json: calories as the value,
\* the macros in the metadata, the timestamp at midnight of the date
Nutrition(src, cal, d, p, c, f) ==
    [ParsedRecord("nutrition", src, "nutrition_daily", cal, d, d, "", NoneInt, NoneInt)
       EXCEPT !.metadata = [NoMetadata EXCEPT !.protein_g = p, !.carbs_g = c,
                                               !.fat_g = f]]

\* a field of a JSON entry: well formed with value v, present but not
\* convertible (an unparsable date text, a non-numeric value), or absent
Ok(v) == [kind |-> "ok", v |-> v]
Garbage == [kind |-> "garbage", v |-> 0]
Missing == [kind |-> "missing", v |-> 0]

\* variant: the session is dated by the day it starts
SleepRecord_StartDate(e) ==
    ParsedRecord("sleep_log", "fitbit", NoneStr, NoneInt,
                 e.startTime.v, e.startTime.v,
                 IF e.logId.kind = "ok" THEN ToString(e.logId.v) ELSE "",
                 e.startTime.v,
                 IF e.duration.kind = "ok" THEN e.duration.v \div 60000 ELSE 0)

\* _parse_sleep_json, lines 252-277: the record of an entry whose times and
\* dateOfSleep parse; the date is the entry's dateOfSleep, the duration is
\* in minutes, an absent logId is ''
SleepRecord(e) ==
    ParsedRecord("sleep_log", "fitbit", NoneStr, NoneInt,
                 e.startTime.v, e.dateOfSleep.v,
                 IF e.logId.kind = "ok" THEN ToString(e.logId.v) ELSE "",
                 e.startTime.v,
                 IF e.duration.kind = "ok" THEN e.duration.v \div 60000 ELSE 0)

\* the sleep entry of the fitbit export: a night that starts on day 1, ends
\* on day 2 and is labelled day 2
NightSleep ==
    [startTime |-> Ok(1), endTime |-> Ok(2), dateOfSleep |-> Ok(2),
     duration |-> Ok(24000000), logId |-> Ok(1)]

\* what an export holds, as the records an adapter makes of it
Entries(src, path) ==
    CASE path = "fitbit_export" ->
           << ParsedRecord("health_record", src, "steps", 5, 1, 1, "", NoneInt, NoneInt),
              ParsedRecord("health_record", src, "steps", 7, 1, 1, "", NoneInt, NoneInt),
              [SleepRecord(NightSleep) EXCEPT !.source = src] >>
      [] path = "shared_export" ->
           << Nutrition(src, 2000, 1, 150, 200, 70),
              ParsedRecord("health_record", src, "resting_heart_rate", NoneInt, 2, 2, "", NoneInt, NoneInt),
              ParsedRecord("health_record", src, "steps", 9, 1, 1, "", NoneInt, NoneInt),
              ParsedRecord("health_record", src, "resting_heart_rate", 60, 1, 1, "", NoneInt, NoneInt) >>
      [] path = "oura_export" ->
           << Nutrition(src, 1800, 1, 90, 225, 60),
              ParsedRecord("workout", src, NoneStr, 3, 1, 1, "", NoneInt, NoneInt),
              ParsedRecord("health_record", src, "hrv_rmssd", 40, 1, NoneInt, "", NoneInt, NoneInt),
              ParsedRecord("health_record", src, "sleep_score", 80, 2, 2, "", NoneInt, NoneInt) >>
      [] OTHER -> << >>

\* BaseAdapter.parse: FitbitAdapter.parse catches every per-file error; the
\* abstract contract lets another adapter raise on a path it cannot read.
ParseRaises(a, path) == a = "oura" /\ path = "notes.txt"

\* result.errors of a parse: one unreadable row in the oura export; the oura
\* adapter reads none of the ErrorCap files of the shared export
ParseErrors(a, path) ==
    IF path = "oura_export" THEN << "Error parsing row" >>
    ELSE IF a = "oura" /\ path = "shared_export"
    THEN [k \in 1..ErrorCap |-> "Error parsing file"]
    ELSE << >>

parse(a, path) ==
    [success        |-> Len(ParseErrors(a, path)) = 0,
     records        |-> Entries(a, path),
     errors         |-> ParseErrors(a, path),
     records_parsed |-> Len(Entries(a, path))]

EmptyResult ==
    [success |-> TRUE, records |-> << >>, errors |-> << >>, records_parsed |-> 0]

\* ------------------------------------------------------------------------
\* Python helpers
\* ------------------------------------------------------------------------
Truthy(s) == s # NoneStr /\ s # ""

RECURSIVE sorted(_)
sorted(S) ==
    IF S = {} THEN << >>
    ELSE LET m == CHOOSE x \in S : \A y \in S : x <= y
         IN  << m >> \o sorted(S \ {m})

Max(S) == CHOOSE x \in S : \A y \in S : y <= x

\* ------------------------------------------------------------------------
\* AdapterRegistry
\* ------------------------------------------------------------------------
RECURSIVE FirstAccepting(_, _)
FirstAccepting(i, path) ==
    IF i > Len(_adapters) THEN NoneStr
    ELSE IF can_handle(_adapters[i], path) THEN _adapters[i]
    ELSE FirstAccepting(i + 1, path)

\* variant: the adapter registered last among those that accept the path
get_adapter_for_Last(path) ==
    LET A == { i \in 1..Len(_adapters) : can_handle(_adapters[i], path) }
    IN  IF A = {} THEN NoneStr ELSE _adapters[Max(A)]

\* AdapterRegistry.get_adapter_for: first registered adapter whose detector
\* accepts the path, or None
get_adapter_for(path) == FirstAccepting(1, path)

RECURSIVE FirstNamed(_, _)
FirstNamed(i, name) ==
    IF i > Len(_adapters) THEN NoneStr
    ELSE IF _adapters[i] = name THEN _adapters[i]
    ELSE FirstNamed(i + 1, name)

\* AdapterRegistry.get_adapter_by_name: first registered adapter whose
\* SOURCE_NAME is the name, or None
get_adapter_by_name(name) == FirstNamed(1, name)

\* variant: an unknown name falls back to auto-detection
ResolveAdapter_FallbackDetect(source, path) ==
    IF Truthy(source) /\ get_adapter_by_name(source) # NoneStr
    THEN get_adapter_by_name(source)
    ELSE get_adapter_for(path)

\* variant: auto-detection is tried before the explicit name
ResolveAdapter_DetectFirst(source, path) ==
    IF get_adapter_for(path) # NoneStr THEN get_adapter_for(path)
    ELSE IF Truthy(source) THEN get_adapter_by_name(source)
    ELSE NoneStr

\* IngestionService.ingest_file, lines 72-75: the adapter lookup
ResolveAdapter(source, path) ==
    IF Truthy(source) THEN get_adapter_by_name(source)
    ELSE get_adapter_for(path)

\* ------------------------------------------------------------------------
\* State
\* ------------------------------------------------------------------------
VARIABLES
    DataImportLog,   \* table: batch_id -> row (batch_id is unique)
    store,           \* committed HealthRecord, SleepLog and NutritionLog rows
    DailySummary,    \* table: <<user, date>> -> row (unique_together)
    pend,            \* per caller: rows written inside the open atomic block
    pc,              \* per caller: position in the ingestion call
    self,            \* per caller: the IngestionService fields
    loc,             \* per caller: locals of the running call
    now,             \* the clock read by utcnow / auto_now
    nextBatch,       \* next value uuid4() returns
    nextRow,         \* next primary key
    calls,           \* service calls started so far
    fx               \* the export file a FitbitAdapter parser is reading

vars == << DataImportLog, store, DailySummary, pend, pc, self, loc, now,
           nextBatch, nextRow, calls, fx >>

\* no file is being parsed
NoFile ==
    [name |-> << >>, parser |-> NoneStr, activity_level |-> NoneStr,
     entries |-> << >>, i |-> 1, records |-> << >>, errors |-> << >>,
     done |-> TRUE]

\* ------------------------------------------------------------------------
\* FitbitAdapter parsers of one export file
\* ------------------------------------------------------------------------
\* variant: every total is accepted
validate_steps_any(value) == TRUE

\* DataProcessor.validate_steps
validate_steps(value) == 0 <= value /\ value <= 100000

\* pd.to_numeric(df['value'], errors='coerce').fillna(0).astype(int)
StepsOf(e) == IF e.value.kind = "ok" THEN e.value.v ELSE 0

\* the entries DataProcessor.parse_datetime gives a date, by date
EntriesOn(entries, d) ==
    { k \in 1..Len(entries) :
        entries[k].dateTime.kind = "ok" /\ entries[k].dateTime.v = d }

RECURSIVE SumSteps(_, _)
SumSteps(entries, K) ==
    IF K = {} THEN 0
    ELSE LET k == CHOOSE x \in K : TRUE
         IN  StepsOf(entries[k]) + SumSteps(entries, K \ {k})

\* whether DataProcessor.aggregate_steps_json raises: strptime raises
\* TypeError on the NaN of an absent dateTime; when no dateTime of the file
\* parses, the .dt accessor is applied to an emptied column of None, which
\* raises or not with the pandas build
AggregateRaises(entries) ==
    IF \E k \in 1..Len(entries) : entries[k].dateTime.kind = "missing"
    THEN {TRUE}
    ELSE IF entries # << >> /\
            \A k \in 1..Len(entries) : entries[k].dateTime.kind = "garbage"
    THEN {TRUE, FALSE}
    ELSE {FALSE}

\* DataProcessor.aggregate_steps_json: rows with an unparsable dateTime are
\* dropped; the rest is grouped by date into total_steps and records_count
aggregate_steps_json(entries) ==
    LET days == { entries[k].dateTime.v :
                    k \in { x \in 1..Len(entries) : entries[x].dateTime.kind = "ok" } }
        order == sorted(days)
    IN  [n \in 1..Len(order) |->
            [date |-> order[n],
             total_steps |-> SumSteps(entries, EntriesOn(entries, order[n])),
             records_count |-> Cardinality(EntriesOn(entries, order[n]))]]

\* the steps record _parse_steps_json yields for a row of the aggregate
StepsRecord(row) ==
    [ParsedRecord("health_record", "fitbit", "steps", row.total_steps,
                  row.date, row.date, "", NoneInt, NoneInt)
       EXCEPT !.metadata.records_count = row.records_count]

\* the rows of the aggregate that _parse_steps_json keeps
RECURSIVE StepsRecords(_)
StepsRecords(rows) ==
    IF rows = << >> THEN << >>
    ELSE IF validate_steps(Head(rows).total_steps)
    THEN << StepsRecord(Head(rows)) >> \o StepsRecords(Tail(rows))
    ELSE StepsRecords(Tail(rows))

\* FitbitAdapter._parse_steps_json
_parse_steps_json ==
    /\ fx.parser = "steps" /\ ~ fx.done
    /\ \E raised \in AggregateRaises(fx.entries) :
          fx' = IF raised
                THEN [fx EXCEPT !.errors = Append(@, "Error parsing steps file"),
                                !.done = TRUE]
                ELSE [fx EXCEPT !.records =
                                   StepsRecords(aggregate_steps_json(fx.entries)),
                                !.done = TRUE]
    /\ UNCHANGED << DataImportLog, store, DailySummary, pend, pc, self, loc, now,
                    nextBatch, nextRow, calls >>

\* the except branch around the whole loop of a parser: the error is logged
\* and the generator ends
Abort(f, msg) == [f EXCEPT !.errors = Append(@, msg), !.done = TRUE]

\* BaseAdapter._parse_datetime found no format: the error is logged, the
\* entry is passed over
PassOver(f, n) ==
    [f EXCEPT !.errors = @ \o [k \in 1..n |-> "Could not parse datetime"],
              !.i = @ + 1]

Yield(f, record) == [f EXCEPT !.records = Append(@, record), !.i = @ + 1]

\* _parse_active_minutes_json, lines 431-445: one entry of the loop;
\* entry['dateTime'] and entry['value'] raise KeyError when absent, float()
\* raises ValueError on a non-numeric value
active_minutes_entry(f, e) ==
    IF e.dateTime.kind = "missing"
    THEN Abort(f, "Error parsing active minutes file")
    ELSE IF e.dateTime.kind = "garbage" THEN PassOver(f, 1)
    ELSE IF e.value.kind # "ok"
    THEN Abort(f, "Error parsing active minutes file")
    ELSE Yield(f, [ParsedRecord("health_record", "fitbit", "active_minutes",
                                e.value.v, e.dateTime.v, e.dateTime.v, "",
                                NoneInt, NoneInt)
                     EXCEPT !.metadata.activity_level = f.activity_level])

\* FitbitAdapter._parse_active_minutes_json: one step of the generator
_parse_active_minutes_json ==
    /\ fx.parser = "active_minutes" /\ ~ fx.done
    /\ fx' = IF fx.i > Len(fx.entries) THEN [fx EXCEPT !.done = TRUE]
             ELSE active_minutes_entry(fx, fx.entries[fx.i])
    /\ UNCHANGED << DataImportLog, store, DailySummary, pend, pc, self, loc, now,
                    nextBatch, nextRow, calls >>

\* _parse_sleep_json, lines 241-277: one entry of the loop; startTime,
\* endTime and dateOfSleep raise KeyError when absent, both times are parsed
\* before either is tested, strptime raises ValueError on an unparsable
\* dateOfSleep, duration // 60000 raises TypeError on a text, an absent
\* duration is 0 and an absent logId is ''
sleep_entry(f, e) ==
    IF e.startTime.kind = "missing" THEN Abort(f, "Error parsing sleep file")
    ELSE IF e.endTime.kind = "missing"
    THEN Abort(PassOver(f, IF e.startTime.kind = "garbage" THEN 1 ELSE 0),
               "Error parsing sleep file")
    ELSE IF e.startTime.kind = "garbage" \/ e.endTime.kind = "garbage"
    THEN PassOver(f, Cardinality({ x \in {"startTime", "endTime"} :
                                     e[x].kind = "garbage" }))
    ELSE IF e.dateOfSleep.kind # "ok" \/ e.duration.kind = "garbage"
    THEN Abort(f, "Error parsing sleep file")
    ELSE Yield(f, SleepRecord(e))

\* FitbitAdapter._parse_sleep_json: one step of the generator
_parse_sleep_json ==
    /\ fx.parser = "sleep" /\ ~ fx.done
    /\ fx' = IF fx.i > Len(fx.entries) THEN [fx EXCEPT !.done = TRUE]
             ELSE sleep_entry(fx, fx.entries[fx.i])
    /\ UNCHANGED << DataImportLog, store, DailySummary, pend, pc, self, loc, now,
                    nextBatch, nextRow, calls >>

\* DataProcessor.validate_heart_rate
validate_heart_rate(value) == 30 <= value /\ value <= 250

\* _parse_user_sleep_scores_csv, lines 755-786: one row of the loop; a row
\* whose score_time is NaN or does not parse is passed over without an
\* error, float() raises ValueError on a text in resting_heart_rate, a
\* record is yielded when the value is not NaN and above 0
user_sleep_scores_row(f, e) ==
    IF e.score_time.kind # "ok" THEN [f EXCEPT !.i = @ + 1]
    ELSE IF e.resting_heart_rate.kind = "garbage"
    THEN Abort(f, "Error parsing UserSleepScores CSV")
    ELSE IF e.resting_heart_rate.kind = "ok" /\ e.resting_heart_rate.v > 0
    THEN Yield(f, ParsedRecord("health_record", "fitbit", "resting_heart_rate",
                               e.resting_heart_rate.v, e.score_time.v,
                               e.score_time.v, "", NoneInt, NoneInt))
    ELSE [f EXCEPT !.i = @ + 1]

\* FitbitAdapter._parse_user_sleep_scores_csv: one step of the generator
_parse_user_sleep_scores_csv ==
    /\ fx.parser = "user_sleep_scores" /\ ~ fx.done
    /\ fx' = IF fx.i > Len(fx.entries) THEN [fx EXCEPT !.done = TRUE]
             ELSE user_sleep_scores_row(fx, fx.entries[fx.i])
    /\ UNCHANGED << DataImportLog, store, DailySummary, pend, pc, self, loc, now,
                    nextBatch, nextRow, calls >>

\* file.name.lower() of the files of Global Export Data, cut at the places
\* where a pattern of the routing can start or end
Stamp == "2024-01-01"
HeartRateName       == << "heart_rate-", Stamp, ".json" >>
RestingHeartRateName == << "resting_", "heart_rate-", Stamp, ".json" >>
CaloriesName        == << "calories-", Stamp, ".json" >>
SleepName           == << "sleep-", Stamp, ".json" >>
StepsName           == << "steps-", Stamp, ".json" >>
VeryActiveName      == << "very_", "active_minutes-", Stamp, ".json" >>
ModeratelyActiveName == << "moderately_", "active_minutes-", Stamp, ".json" >>
LightlyActiveName   == << "lightly_", "active_minutes-", Stamp, ".json" >>
SedentaryName       == << "sedentary_", "minutes-", Stamp, ".json" >>

\* pattern in name
Contains(name, pattern) ==
    \E k \in 1..(Len(name) - Len(pattern) + 1) :
       SubSeq(name, k, k + Len(pattern) - 1) = pattern

Route(parser, level) == [parser |-> parser, activity_level |-> level]

\* FitbitAdapter._parse_file, lines 165-190: the parser a JSON file name is
\* routed to, with the activity level it is called with; None when the file
\* is passed
_parse_file(name) ==
    IF name[Len(name)] # ".json" THEN Route(NoneStr, NoneStr)
    ELSE IF Contains(name, << "heart_rate-" >>) THEN Route(NoneStr, NoneStr)
    ELSE IF Contains(name, << "calories-" >>) THEN Route(NoneStr, NoneStr)
    ELSE IF Contains(name, << "sleep-" >>) THEN Route("sleep", NoneStr)
    ELSE IF Contains(name, << "steps-" >>) THEN Route("steps", NoneStr)
    ELSE IF Contains(name, << "resting_", "heart_rate-" >>)
    THEN Route("resting_hr", NoneStr)
    ELSE IF Contains(name, << "very_", "active_minutes-" >>)
    THEN Route("active_minutes", "very_active")
    ELSE IF Contains(name, << "moderately_", "active_minutes-" >>)
    THEN Route("active_minutes", "moderately_active")
    ELSE IF Contains(name, << "lightly_", "active_minutes-" >>)
    THEN Route("active_minutes", "lightly_active")
    ELSE IF Contains(name, << "sedentary_", "minutes-" >>)
    THEN Route("active_minutes", "sedentary")
    ELSE Route(NoneStr, NoneStr)

\* the generator of a file that was routed; a file that is passed yields
\* nothing
Open(name, route, entries) ==
    [name |-> name, parser |-> route.parser,
     activity_level |-> route.activity_level, entries |-> entries, i |-> 1,
     records |-> << >>, errors |-> << >>, done |-> route.parser = NoneStr]

\* list(generator) of a sleep or active-minutes file: the entries are taken
\* one after another until the generator ends
RECURSIVE Drain(_)
Drain(f) ==
    IF f.done THEN f
    ELSE IF f.i > Len(f.entries) THEN [f EXCEPT !.done = TRUE]
    ELSE IF f.parser = "sleep" THEN Drain(sleep_entry(f, f.entries[f.i]))
    ELSE Drain(active_minutes_entry(f, f.entries[f.i]))

\* the minutes one level file of the activity export holds for day 1
LevelEntry(minutes) == [dateTime |-> Ok(1), value |-> Ok(minutes)]

\* two nights without a logId: one starts on day 1 and is labelled day 2,
\* the other starts on day 2 and is labelled day 3
NoIdSleep(k) ==
    [startTime |-> Ok(k), endTime |-> Ok(k + 1), dateOfSleep |-> Ok(k + 1),
     duration |-> Ok(24000000 + k * 600000), logId |-> Missing]

\* the files of the Global Export Data folder of an export directory, each
\* a name with its entries
GlobalExportFolder(path) ==
    CASE path = "activity_export" ->
           { << VeryActiveName, << LevelEntry(10) >> >>,
             << ModeratelyActiveName, << LevelEntry(20) >> >>,
             << LightlyActiveName, << LevelEntry(200) >> >>,
             << SedentaryName, << LevelEntry(900) >> >> }
      [] path = "sleep_export" ->
           { << SleepName, << NoIdSleep(1), NoIdSleep(2) >> >> }
      [] OTHER -> {}

\* global_data.iterdir(): the files in an order the file system chooses
iterdir(F) ==
    { o \in [1..Cardinality(F) -> F] :
        \A i \in DOMAIN o, j \in DOMAIN o : i # j => o[i] # o[j] }

\* _parse_directory, lines 108-110: records.extend(self._parse_file(file))
\* over the files in the order given
RECURSIVE ExtendAll(_)
ExtendAll(order) ==
    IF order = << >> THEN [records |-> << >>, errors |-> << >>]
    ELSE LET f == Drain(Open(Head(order)[1], _parse_file(Head(order)[1]),
                             Head(order)[2]))
             rest == ExtendAll(Tail(order))
         IN  [records |-> f.records \o rest.records,
              errors |-> f.errors \o rest.errors]

\* FitbitAdapter._parse_directory with the errors it logs: one outcome for
\* each order iterdir can give
_parse_directory(path) ==
    { ExtendAll(o) : o \in iterdir(GlobalExportFolder(path)) }

\* adapter.parse(path): the results the call can return
ParseResults(a, path) ==
    IF a = "fitbit" /\ GlobalExportFolder(path) # {}
    THEN { [success |-> Len(x.errors) = 0, records |-> x.records,
            errors |-> x.errors, records_parsed |-> Len(x.records)] :
             x \in _parse_directory(path) }
    ELSE { parse(a, path) }

\* ------------------------------------------------------------------------
\* Tables
\* ------------------------------------------------------------------------
HealthRecord(S) == { r \in S : r.model = "HealthRecord" }
SleepLog(S)     == { r \in S : r.model = "SleepLog" }
NutritionLog(S) == { r \in S : r.model = "NutritionLog" }

\* IngestionService._save_record: the model a record type is saved to
ModelOf(record) ==
    CASE record.record_type = "health_record" -> "HealthRecord"
      [] record.record_type = "sleep_log" -> "SleepLog"
      [] record.record_type \in {"nutrition_log", "nutrition"} -> "NutritionLog"
      [] OTHER -> NoneStr

\* variant: the value is among the lookup arguments instead of the defaults
KeyMatch_WithValue(r, user, record) ==
    /\ r.model = ModelOf(record)
    /\ r.user = user
    /\ r.source = record.source
    /\ CASE r.model = "HealthRecord" ->
              /\ r.metric_type = record.metric_type
              /\ r.timestamp = record.timestamp
              /\ r.value = record.value
         [] r.model = "SleepLog" -> r.source_log_id = record.source_log_id
         [] OTHER -> r.date = record.date

\* the lookup arguments of the three get_or_create calls
KeyMatch(r, user, record) ==
    /\ r.model = ModelOf(record)
    /\ r.user = user
    /\ r.source = record.source
    /\ CASE r.model = "HealthRecord" ->
              r.metric_type = record.metric_type /\ r.timestamp = record.timestamp
         [] r.model = "SleepLog" -> r.source_log_id = record.source_log_id
         [] OTHER -> r.date = record.date

\* variant: the sleep row is inserted without its source_log_id
NewRow_NoLogId(id, user, batch, record) ==
    LET m == ModelOf(record) IN
    [id |-> id, model |-> m, user |-> user, source |-> record.source,
     metric_type |-> IF m = "HealthRecord" THEN record.metric_type ELSE NoneStr,
     timestamp |-> IF m = "HealthRecord" THEN record.timestamp ELSE NoneInt,
     source_log_id |-> "",
     date |-> record.date,
     value |-> IF m = "SleepLog" THEN NoneInt ELSE record.value,
     start_time |-> IF m = "SleepLog" THEN record.start_time ELSE NoneInt,
     duration_minutes |->
        IF m = "SleepLog"
        THEN (IF record.duration_minutes = NoneInt THEN 0 ELSE record.duration_minutes)
        ELSE NoneInt,
     protein_g |-> IF m = "NutritionLog" THEN record.metadata.protein_g ELSE NoneInt,
     carbs_g |-> IF m = "NutritionLog" THEN record.metadata.carbs_g ELSE NoneInt,
     fat_g |-> IF m = "NutritionLog" THEN record.metadata.fat_g ELSE NoneInt,
     activity_level |->
        IF m = "HealthRecord" THEN record.metadata.activity_level ELSE NoneStr,
     import_batch_id |-> batch]

\* the defaults of the three get_or_create calls: the row a create inserts
NewRow(id, user, batch, record) ==
    LET m == ModelOf(record) IN
    [id |-> id, model |-> m, user |-> user, source |-> record.source,
     metric_type |-> IF m = "HealthRecord" THEN record.metric_type ELSE NoneStr,
     timestamp |-> IF m = "HealthRecord" THEN record.timestamp ELSE NoneInt,
     source_log_id |-> IF m = "SleepLog" THEN record.source_log_id ELSE "",
     date |-> record.date,
     value |-> IF m = "SleepLog" THEN NoneInt ELSE record.value,
     start_time |-> IF m = "SleepLog" THEN record.start_time ELSE NoneInt,
     duration_minutes |->
        IF m = "SleepLog"
        THEN (IF record.duration_minutes = NoneInt THEN 0 ELSE record.duration_minutes)
        ELSE NoneInt,
     protein_g |-> IF m = "NutritionLog" THEN record.metadata.protein_g ELSE NoneInt,
     carbs_g |-> IF m = "NutritionLog" THEN record.metadata.carbs_g ELSE NoneInt,
     fat_g |-> IF m = "NutritionLog" THEN record.metadata.fat_g ELSE NoneInt,
     activity_level |->
        IF m = "HealthRecord" THEN record.metadata.activity_level ELSE NoneStr,
     import_batch_id |-> batch]

\* NOT NULL columns of the three models: the insert raises IntegrityError
CreateFails(record) ==
    LET m == ModelOf(record) IN
    CASE m = "HealthRecord" ->
            \/ record.value = NoneInt
            \/ record.timestamp = NoneInt
            \/ record.metric_type = NoneStr
      [] m = "SleepLog" -> record.date = NoneInt \/ record.start_time = NoneInt
      [] OTHER -> record.date = NoneInt

\* rows a statement of caller p sees
Visible(p) == store \cup pend[p]

Matches(p, record) == { r \in Visible(p) : KeyMatch(r, self[p].user, record) }

\* ------------------------------------------------------------------------
\* Initial state
\* ------------------------------------------------------------------------
NoLocals ==
    [call |-> NoneStr, path |-> NoneStr, source |-> NoneStr, adapter |-> NoneStr,
     parse_calls |-> 0, result |-> EmptyResult, i |-> 1,
     records_created |-> 0, records_skipped |-> 0,
     dates_affected |-> {}, todo |-> << >>, ret |-> NoneInt]

Init ==
    /\ DataImportLog = << >>
    /\ store = {}
    /\ DailySummary = << >>
    /\ pend = [p \in Procs |-> {}]
    /\ pc = [p \in Procs |-> "idle"]
    /\ self = [p \in Procs |-> [user |-> NoneStr, batch_id |-> NoneInt,
                                import_log |-> NoneInt]]
    /\ loc = [p \in Procs |-> NoLocals]
    /\ now = 1
    /\ nextBatch = 1
    /\ nextRow = 1
    /\ calls = 0
    /\ fx = NoFile

\* ------------------------------------------------------------------------
\* IngestionService
\* ------------------------------------------------------------------------
CanStart(p) == pc[p] \in {"idle", "done", "raised", "crashed"} /\ calls < MaxCalls

\* variant: the row is created with the model's default status
CreatedStatus_Pending == "pending"

\* status a new DataImportLog row is created with (services.py:65, :110)
CreatedStatus == "processing"

NewImportLog(user, batch, source, path) ==
    [user |-> user, batch_id |-> batch, source |-> source,
     status |-> CreatedStatus, file_name |-> path,
     records_processed |-> 0, records_created |-> 0, records_skipped |-> 0,
     errors |-> << >>, started_at |-> now, completed_at |-> NoneInt]

\* the except branch of ingest_file and ingest_from_adapter
FailedLog(log, msg) ==
    [log EXCEPT !.status = "failed", !.errors = << msg >>, !.completed_at = now]

\* ingest_file, lines 57-68: allocate the batch id and create the import log
ingest_file(p, user, path, source) ==
    /\ CanStart(p)
    /\ LET batch == nextBatch IN
       /\ DataImportLog' = DataImportLog @@
              (batch :> NewImportLog(user, batch,
                           IF Truthy(source) THEN source ELSE "unknown", path))
       /\ self' = [self EXCEPT ![p] = [user |-> user, batch_id |-> batch,
                                       import_log |-> batch]]
    /\ loc' = [loc EXCEPT ![p] = [NoLocals EXCEPT !.call = "ingest_file",
                                             !.path = path, !.source = source]]
    /\ pc' = [pc EXCEPT ![p] = "resolve"]
    /\ nextBatch' = nextBatch + 1
    /\ calls' = calls + 1
    /\ now' = now + 1
    /\ UNCHANGED << store, DailySummary, pend, nextRow >>
    /\ UNCHANGED fx

\* ingest_file, lines 70-93: resolve the adapter or fail the batch
resolve(p) ==
    /\ pc[p] = "resolve"
    /\ LET adapter == ResolveAdapter(loc[p].source, loc[p].path)
           b == self[p].import_log
       IN IF adapter = NoneStr
          THEN /\ DataImportLog' = [DataImportLog EXCEPT ![b] =
                       FailedLog(@, "No adapter found for path")]
               /\ pc' = [pc EXCEPT ![p] = "done"]
               /\ loc' = [loc EXCEPT ![p].ret = b]
          ELSE /\ DataImportLog' =
                     IF Truthy(loc[p].source) THEN DataImportLog
                     ELSE [DataImportLog EXCEPT ![b].source = adapter]
               /\ pc' = [pc EXCEPT ![p] = "parse"]
               /\ loc' = [loc EXCEPT ![p].adapter = adapter]
    /\ now' = now + 1
    /\ UNCHANGED << store, DailySummary, pend, self, nextBatch, nextRow, calls >>
    /\ UNCHANGED fx

\* ingest_from_adapter, lines 103-113: the batch id is the adapter's, when it
\* has one; the create is outside the try block
ingest_from_adapter(p, user, inst, path) ==
    /\ CanStart(p)
    /\ LET batch == IF inst.batch_id # NoneInt THEN inst.batch_id ELSE nextBatch IN
       /\ nextBatch' = IF inst.batch_id # NoneInt THEN nextBatch ELSE nextBatch + 1
       /\ IF batch \in DOMAIN DataImportLog
          THEN \* unique batch_id: IntegrityError reaches the caller
               /\ self' = [self EXCEPT ![p] = [@ EXCEPT !.user = user, !.batch_id = batch]]
               /\ pc' = [pc EXCEPT ![p] = "raised"]
               /\ loc' = [loc EXCEPT ![p] = [NoLocals EXCEPT
                                     !.call = "ingest_from_adapter", !.path = path,
                                     !.adapter = inst.SOURCE_NAME]]
               /\ UNCHANGED DataImportLog
          ELSE /\ DataImportLog' = DataImportLog @@
                     (batch :> NewImportLog(user, batch, inst.SOURCE_NAME, path))
               /\ self' = [self EXCEPT ![p] = [user |-> user, batch_id |-> batch,
                                               import_log |-> batch]]
               /\ pc' = [pc EXCEPT ![p] = "parse"]
               /\ loc' = [loc EXCEPT ![p] = [NoLocals EXCEPT
                                     !.call = "ingest_from_adapter", !.path = path,
                                     !.adapter = inst.SOURCE_NAME]]
    /\ calls' = calls + 1
    /\ now' = now + 1
    /\ UNCHANGED << store, DailySummary, pend, nextRow >>
    /\ UNCHANGED fx

\* _process_with_adapter, line 131: adapter.parse; an exception reaches the
\* except branch of the caller, which fails the batch
process_parse(p) ==
    /\ pc[p] = "parse"
    /\ LET b == self[p].import_log IN
       IF ParseRaises(loc[p].adapter, loc[p].path)
       THEN /\ DataImportLog' = [DataImportLog EXCEPT ![b] =
                    FailedLog(@, "parse raised")]
            /\ pc' = [pc EXCEPT ![p] = "done"]
            /\ loc' = [loc EXCEPT ![p].parse_calls = @ + 1, ![p].ret = b]
       ELSE /\ pc' = [pc EXCEPT ![p] = "save"]
            /\ \E result \in ParseResults(loc[p].adapter, loc[p].path) :
                  loc' = [loc EXCEPT ![p].parse_calls = @ + 1,
                                     ![p].result = result]
            /\ UNCHANGED DataImportLog
    /\ now' = now + 1
    /\ UNCHANGED << store, DailySummary, pend, self, nextBatch, nextRow, calls >>
    /\ UNCHANGED fx

\* variant: the exception text is not appended to result.errors
Skipped_NoAppend(l, err) ==
    [l EXCEPT !.records_skipped = @ + 1, !.i = @ + 1]

\* lines 147-152: the record is counted as skipped; an exception also
\* appends its text to result.errors
Skipped(l, err) ==
    [l EXCEPT !.records_skipped = @ + 1, !.i = @ + 1,
              !.result.errors = IF err = NoneStr THEN @ ELSE Append(@, err)]

\* lines 145-146: the dates tracked for a created record
TrackDate(dates, record) ==
    IF record.date # NoneInt THEN dates \cup {record.date} ELSE dates

\* variant: a created record is counted among the skipped ones
Created_AsSkipped(l, record) ==
    [l EXCEPT !.records_skipped = @ + 1, !.i = @ + 1,
              !.dates_affected = TrackDate(@, record)]

\* lines 142-146: the record was created
Created(l, record) ==
    [l EXCEPT !.records_created = @ + 1, !.i = @ + 1,
              !.dates_affected = TrackDate(@, record)]

\* what the get of get_or_create answers for the rows it matches
GetOutcome(m) ==
    IF Cardinality(m) = 0 THEN "DoesNotExist"
    ELSE IF Cardinality(m) = 1 THEN "found"
    ELSE "MultipleObjectsReturned"

\* variant: update_or_create, a matched row takes the record's value and date
save_get_update(p) ==
    /\ pc[p] = "save"
    /\ loc[p].i <= Len(loc[p].result.records)
    /\ LET record == loc[p].result.records[loc[p].i]
           m == Matches(p, record)
           out == GetOutcome(m)
           Upd(S) == { IF r \in m THEN [r EXCEPT !.value = record.value,
                                                 !.date = record.date]
                       ELSE r : r \in S }
       IN IF ModelOf(record) = NoneStr
          THEN /\ loc' = [loc EXCEPT ![p] = Skipped(@, NoneStr)]
               /\ UNCHANGED << pc, store, pend >>
          ELSE IF out = "found"
          THEN /\ loc' = [loc EXCEPT ![p] = Skipped(@, NoneStr)]
               /\ store' = Upd(store)
               /\ pend' = [pend EXCEPT ![p] = Upd(@)]
               /\ UNCHANGED pc
          ELSE IF out = "MultipleObjectsReturned"
          THEN /\ loc' = [loc EXCEPT ![p] = Skipped(@, out)]
               /\ UNCHANGED << pc, store, pend >>
          ELSE /\ pc' = [pc EXCEPT ![p] = "create"]
               /\ UNCHANGED << loc, store, pend >>
    /\ now' = now + 1
    /\ UNCHANGED << DataImportLog, DailySummary, self, nextBatch, nextRow, calls >>
    /\ UNCHANGED fx

\* lines 139-141, _save_record and the get of get_or_create
save_get(p) ==
    /\ pc[p] = "save"
    /\ loc[p].i <= Len(loc[p].result.records)
    /\ LET record == loc[p].result.records[loc[p].i]
           out == GetOutcome(Matches(p, record))
       IN IF ModelOf(record) = NoneStr
          THEN /\ loc' = [loc EXCEPT ![p] = Skipped(@, NoneStr)]
               /\ UNCHANGED pc
          ELSE IF out = "found"
          THEN /\ loc' = [loc EXCEPT ![p] = Skipped(@, NoneStr)]
               /\ UNCHANGED pc
          ELSE IF out = "MultipleObjectsReturned"
          THEN /\ loc' = [loc EXCEPT ![p] = Skipped(@, out)]
               /\ UNCHANGED pc
          ELSE /\ pc' = [pc EXCEPT ![p] = "create"]
               /\ UNCHANGED loc
    /\ now' = now + 1
    /\ UNCHANGED << DataImportLog, store, DailySummary, pend, self,
                    nextBatch, nextRow, calls >>
    /\ UNCHANGED fx

\* the create of get_or_create, inside its own savepoint: on IntegrityError
\* the insert is undone and the get is tried once more
save_create(p) ==
    /\ pc[p] = "create"
    /\ LET record == loc[p].result.records[loc[p].i]
           out == GetOutcome(Matches(p, record))
       IN IF CreateFails(record)
          THEN /\ loc' = [loc EXCEPT ![p] =
                     Skipped(@, CASE out = "found" -> NoneStr
                                  [] out = "DoesNotExist" -> "IntegrityError"
                                  [] OTHER -> out)]
               /\ UNCHANGED << pend, nextRow >>
          ELSE /\ pend' = [pend EXCEPT ![p] = @ \cup
                     { NewRow(nextRow, self[p].user, self[p].batch_id, record) }]
               /\ nextRow' = nextRow + 1
               /\ loc' = [loc EXCEPT ![p] = Created(@, record)]
    /\ pc' = [pc EXCEPT ![p] = "save"]
    /\ now' = now + 1
    /\ UNCHANGED << DataImportLog, store, DailySummary, self, nextBatch, calls >>
    /\ UNCHANGED fx

\* line 138: the atomic block exits after the last record and commits
atomic_commit(p) ==
    /\ pc[p] = "save"
    /\ loc[p].i > Len(loc[p].result.records)
    /\ store' = store \cup pend[p]
    /\ pend' = [pend EXCEPT ![p] = {}]
    /\ loc' = [loc EXCEPT ![p].todo = sorted(loc[p].dates_affected)]
    /\ pc' = [pc EXCEPT ![p] = "summaries"]
    /\ now' = now + 1
    /\ UNCHANGED << DataImportLog, DailySummary, self, nextBatch, nextRow, calls >>
    /\ UNCHANGED fx

\* variant: the rows written so far survive the crash
crash_keeps_rows(p) ==
    /\ pc[p] \in {"resolve", "parse", "save", "create", "summaries"}
    /\ pc' = [pc EXCEPT ![p] = "crashed"]
    /\ store' = store \cup pend[p]
    /\ pend' = [pend EXCEPT ![p] = {}]
    /\ now' = now + 1
    /\ UNCHANGED << DataImportLog, DailySummary, self, loc, nextBatch, nextRow, calls >>
    /\ UNCHANGED fx

\* the process dies in the middle of a call: the connection is lost and the
\* database rolls back the open transaction.atomic() block (line 138);
\* what was committed before stays
crash(p) ==
    /\ pc[p] \in {"resolve", "parse", "save", "create", "summaries"}
    /\ pc' = [pc EXCEPT ![p] = "crashed"]
    /\ pend' = [pend EXCEPT ![p] = {}]
    /\ now' = now + 1
    /\ UNCHANGED << DataImportLog, store, DailySummary, self, loc, nextBatch,
                    nextRow, calls >>
    /\ UNCHANGED fx

\* ------------------------------------------------------------------------
\* DailySummaryService
\* ------------------------------------------------------------------------
\* a DailySummary row as get_or_create inserts it; the percentages are kept
\* in tenths of a percent
EmptySummary ==
    [calories |-> NoneInt, protein_g |-> NoneInt, carbs_g |-> NoneInt,
     fat_g |-> NoneInt, protein_pct |-> NoneInt, carbs_pct |-> NoneInt,
     fat_pct |-> NoneInt,
     sleep_duration_min |-> NoneInt, steps |-> NoneInt,
     resting_hr |-> NoneInt, hrv_rmssd |-> NoneInt, sleep_score |-> NoneInt,
     very_active_minutes |-> NoneInt, moderately_active_minutes |-> NoneInt,
     lightly_active_minutes |-> NoneInt, sedentary_minutes |-> NoneInt,
     data_completeness |-> 0, updated_at |-> NoneInt]

\* NutritionLog.objects.get(user, date): the rows the get matches
NutritionOf(S, user, d) ==
    { r \in NutritionLog(S) : r.user = user /\ r.date = d }

\* _populate_nutrition
populate_nutrition(s, S, user, d) ==
    IF NutritionOf(S, user, d) = {} THEN s
    ELSE LET n == CHOOSE r \in NutritionOf(S, user, d) : TRUE
         IN  [s EXCEPT !.calories = n.value, !.protein_g = n.protein_g,
                       !.carbs_g = n.carbs_g, !.fat_g = n.fat_g]

\* _populate_sleep: the longest session labelled with the date
populate_sleep(s, S, user, d) ==
    LET c == { r \in SleepLog(S) : r.user = user /\ r.date = d } IN
    IF c = {} THEN s
    ELSE [s EXCEPT !.sleep_duration_min = Max({ r.duration_minutes : r \in c }),
                   !.sleep_score = NoneInt]

\* records.filter(metric_type=mt).first() under Meta.ordering -timestamp: the
\* values of the rows that can come first
FirstValues(S, user, d, mt) ==
    LET c == { r \in HealthRecord(S) :
                 r.user = user /\ r.date = d /\ r.metric_type = mt }
    IN  { r.value : r \in { q \in c : \A o \in c : o.timestamp <= q.timestamp } }

Field(old, vals) == IF vals = {} THEN {old} ELSE vals

\* records.filter(metric_type='active_minutes',
\* metadata__activity_level=level).first()
LevelValues(S, user, d, level) ==
    LET c == { r \in HealthRecord(S) :
                 /\ r.user = user /\ r.date = d
                 /\ r.metric_type = "active_minutes"
                 /\ r.activity_level = level }
    IN  { r.value : r \in { q \in c : \A o \in c : o.timestamp <= q.timestamp } }

\* _populate_activity, _populate_vitals, _populate_scores
populate_metrics(s, S, user, d) ==
    { [s EXCEPT !.steps = st, !.resting_hr = rh, !.hrv_rmssd = hv,
                !.sleep_score = sc, !.very_active_minutes = va,
                !.moderately_active_minutes = ma,
                !.lightly_active_minutes = la, !.sedentary_minutes = se] :
        st \in Field(s.steps, FirstValues(S, user, d, "steps")),
        rh \in Field(s.resting_hr, FirstValues(S, user, d, "resting_heart_rate")),
        hv \in Field(s.hrv_rmssd, FirstValues(S, user, d, "hrv_rmssd")),
        sc \in Field(s.sleep_score, FirstValues(S, user, d, "sleep_score")),
        va \in Field(s.very_active_minutes,
                     LevelValues(S, user, d, "very_active")),
        ma \in Field(s.moderately_active_minutes,
                     LevelValues(S, user, d, "moderately_active")),
        la \in Field(s.lightly_active_minutes,
                     LevelValues(S, user, d, "lightly_active")),
        se \in Field(s.sedentary_minutes,
                     LevelValues(S, user, d, "sedentary")) }

\* DailySummary.save, lines 367-373
Filled(s) ==
    Cardinality({ f \in {"calories", "steps", "sleep_duration_min",
                         "resting_hr", "hrv_rmssd", "sleep_score"} :
                  s[f] # NoneInt })

\* round(x, 1) of x = n / d percent, in tenths: the nearest tenth, a tie to
\* the even one
RoundTenths(n, d) ==
    LET q == (n * 10) \div d
        r == (n * 10) % d
    IN  IF 2 * r < d THEN q
        ELSE IF 2 * r > d THEN q + 1
        ELSE IF q % 2 = 0 THEN q ELSE q + 1

\* DailySummary.save, lines 359-365: a percentage is written only when the
\* calories and the macro are set and not zero
MacroPct(old, grams, kcal_per_g, calories) ==
    IF calories # NoneInt /\ calories > 0 /\ grams # NoneInt /\ grams # 0
    THEN RoundTenths(grams * kcal_per_g * 100, calories)
    ELSE old

\* variant: the completeness is taken from whole sixths
summary_save_sixths(s, t) ==
    [s EXCEPT !.protein_pct = MacroPct(@, s.protein_g, 4, s.calories),
              !.carbs_pct = MacroPct(@, s.carbs_g, 4, s.calories),
              !.fat_pct = MacroPct(@, s.fat_g, 9, s.calories),
              !.data_completeness = (Filled(s) \div 6) * 100,
              !.updated_at = t]

\* DailySummary.save: the percentages, the completeness, auto_now
summary_save(s, t) ==
    [s EXCEPT !.protein_pct = MacroPct(@, s.protein_g, 4, s.calories),
              !.carbs_pct = MacroPct(@, s.carbs_g, 4, s.calories),
              !.fat_pct = MacroPct(@, s.fat_g, 9, s.calories),
              !.data_completeness = (Filled(s) * 100) \div 6,
              !.updated_at = t]

\* build_summary raises: the get of _populate_nutrition catches DoesNotExist only
BuildRaises(S, user, d) == Cardinality(NutritionOf(S, user, d)) >= 2

\* the rows build_summary can save for (user, d)
BuildOutcomes(old, S, user, d) ==
    { summary_save(s, now) :
        s \in populate_metrics(
                 populate_sleep(populate_nutrition(old, S, user, d), S, user, d),
                 S, user, d) }

\* variant: the exception of a rebuild is not caught and fails the batch
build_summary_abort(p) ==
    /\ pc[p] = "summaries"
    /\ loc[p].todo # << >>
    /\ LET d == Head(loc[p].todo)
           user == self[p].user
           key == << user, d >>
           b == self[p].import_log
           old == IF key \in DOMAIN DailySummary THEN DailySummary[key]
                  ELSE [EmptySummary EXCEPT !.updated_at = now]
       IN IF BuildRaises(store, user, d)
          THEN /\ DailySummary' = (key :> old) @@ DailySummary
               /\ DataImportLog' = [DataImportLog EXCEPT ![b] =
                      FailedLog(@, "MultipleObjectsReturned")]
               /\ pc' = [pc EXCEPT ![p] = "done"]
               /\ loc' = [loc EXCEPT ![p].todo = << >>, ![p].ret = b]
          ELSE /\ \E s \in BuildOutcomes(old, store, user, d) :
                     DailySummary' = (key :> s) @@ DailySummary
               /\ loc' = [loc EXCEPT ![p].todo = Tail(@)]
               /\ UNCHANGED << DataImportLog, pc >>
    /\ now' = now + 1
    /\ UNCHANGED << store, pend, self, nextBatch, nextRow, calls >>
    /\ UNCHANGED fx

\* _process_with_adapter, lines 157-161: one iteration of the summary loop
build_summary(p) ==
    /\ pc[p] = "summaries"
    /\ loc[p].todo # << >>
    /\ LET d == Head(loc[p].todo)
           user == self[p].user
           key == << user, d >>
           old == IF key \in DOMAIN DailySummary THEN DailySummary[key]
                  ELSE [EmptySummary EXCEPT !.updated_at = now]
       IN IF BuildRaises(store, user, d)
          THEN DailySummary' = (key :> old) @@ DailySummary
          ELSE \E s \in BuildOutcomes(old, store, user, d) :
                  DailySummary' = (key :> s) @@ DailySummary
    /\ loc' = [loc EXCEPT ![p].todo = Tail(@)]
    /\ now' = now + 1
    /\ UNCHANGED << DataImportLog, store, pend, pc, self, nextBatch, nextRow, calls >>
    /\ UNCHANGED fx

\* DailySummaryService.build_summary called on its own (build_range,
\* rebuild_all) for one user and date
rebuild(user, d) ==
    /\ calls < MaxRebuilds
    /\ LET key == << user, d >>
           old == IF key \in DOMAIN DailySummary THEN DailySummary[key]
                  ELSE [EmptySummary EXCEPT !.updated_at = now]
       IN IF BuildRaises(store, user, d)
          THEN DailySummary' = (key :> old) @@ DailySummary
          ELSE \E s \in BuildOutcomes(old, store, user, d) :
                  DailySummary' = (key :> s) @@ DailySummary
    /\ calls' = calls + 1
    /\ now' = now + 1
    /\ UNCHANGED << DataImportLog, store, pend, pc, self, loc, nextBatch, nextRow >>
    /\ UNCHANGED fx

\* DELETE on HealthRecordViewSet, SleepLogViewSet or NutritionLogViewSet
destroy(r) ==
    /\ r \in store
    /\ store' = store \ {r}
    /\ UNCHANGED << DataImportLog, DailySummary, pend, pc, self, loc, now,
                    nextBatch, nextRow, calls >>
    /\ UNCHANGED fx

\* PATCH on NutritionLogViewSet that sets the calories of a day
partial_update(r, calories) ==
    /\ r \in NutritionLog(store)
    /\ r.value # calories
    /\ store' = (store \ {r}) \cup { [r EXCEPT !.value = calories] }
    /\ UNCHANGED << DataImportLog, DailySummary, pend, pc, self, loc, now,
                    nextBatch, nextRow, calls >>
    /\ UNCHANGED fx

\* variant: the whole list is stored
Prefix_All(s, n) == s

\* result.errors[:100]
Prefix(s, n) == SubSeq(s, 1, IF Len(s) < n THEN Len(s) ELSE n)

\* variant: a result that reports errors fails the batch
FinalStatus_FailOnErrors(result) ==
    IF result.success THEN "completed" ELSE "failed"

\* services.py:164: 'completed' if result.success else 'completed'
FinalStatus(result) ==
    IF result.success THEN "completed" ELSE "completed"

\* _process_with_adapter, lines 163-178: finalize the import log
finalize(p) ==
    /\ pc[p] = "summaries"
    /\ loc[p].todo = << >>
    /\ LET b == self[p].import_log IN
       /\ DataImportLog' = [DataImportLog EXCEPT ![b] =
              [@ EXCEPT !.status = FinalStatus(loc[p].result),
                        !.records_processed = loc[p].result.records_parsed,
                        !.records_created = loc[p].records_created,
                        !.records_skipped = loc[p].records_skipped,
                        !.errors = Prefix(loc[p].result.errors, ErrorCap),
                        !.completed_at = now]]
       /\ loc' = [loc EXCEPT ![p].ret = b]
    /\ pc' = [pc EXCEPT ![p] = "done"]
    /\ now' = now + 1
    /\ UNCHANGED << store, DailySummary, pend, self, nextBatch, nextRow, calls >>
    /\ UNCHANGED fx

\* services.py:170 import_log.save() raises (the database refuses the row,
\* as PostgreSQL does for a NUL character in a text of the errors list, or
\* the statement fails): the rows of the atomic block are committed, the
\* except branch of the caller fails the batch, whose counts are already
\* assigned; when its save raises too the exception reaches the caller and
\* the log stays as it was created
final_update_raises(p) ==
    /\ pc[p] = "summaries"
    /\ loc[p].todo = << >>
    /\ LET b == self[p].import_log IN
       \/ /\ DataImportLog' = [DataImportLog EXCEPT ![b] =
                  FailedLog([@ EXCEPT
                      !.records_processed = loc[p].result.records_parsed,
                      !.records_created = loc[p].records_created,
                      !.records_skipped = loc[p].records_skipped], "DataError")]
          /\ loc' = [loc EXCEPT ![p].ret = b]
          /\ pc' = [pc EXCEPT ![p] = "done"]
       \/ /\ pc' = [pc EXCEPT ![p] = "raised"]
          /\ UNCHANGED << DataImportLog, loc >>
    /\ now' = now + 1
    /\ UNCHANGED << store, DailySummary, pend, self, nextBatch, nextRow, calls >>
    /\ UNCHANGED fx

\* ------------------------------------------------------------------------
\* Specifications
\* ------------------------------------------------------------------------
\* one caller: ingestion calls run one after another
Next ==
    \/ \E u \in Users, path \in Paths, source \in Sources :
          ingest_file(1, u, path, source)
    \/ \E u \in Users, inst \in AdapterInstances, path \in Paths :
          ingest_from_adapter(1, u, inst, path)
    \/ resolve(1)
    \/ process_parse(1)
    \/ save_get(1)
    \/ save_create(1)
    \/ atomic_commit(1)
    \/ build_summary(1)
    \/ finalize(1)

Spec == Init /\ [][Next]_vars

\* two callers whose ingestion calls overlap, on exports of one user
NextConc ==
    \E p \in Procs :
       \/ \E path \in {"fitbit_export", "shared_export"} :
             ingest_file(p, "u1", path, "fitbit")
       \/ resolve(p)
       \/ process_parse(p)
       \/ save_get(p)
       \/ save_create(p)
       \/ atomic_commit(p)
       \/ build_summary(p)
       \/ finalize(p)

SpecConc == Init /\ [][NextConc]_vars

\* the rows, logs and summaries left by ingest_file("u1", "fitbit_export")
\* followed by ingest_from_adapter("u1", oura adapter, "shared_export")
IngestedStore ==
    { NewRow(1, "u1", 1, Entries("fitbit", "fitbit_export")[1]),
      NewRow(2, "u1", 1, Entries("fitbit", "fitbit_export")[3]),
      NewRow(3, "u1", FixedBatchId, Entries("oura", "shared_export")[1]),
      NewRow(4, "u1", FixedBatchId, Entries("oura", "shared_export")[3]),
      NewRow(5, "u1", FixedBatchId, Entries("oura", "shared_export")[4]) }

IngestedLogs ==
    (1 :> [user |-> "u1", batch_id |-> 1, source |-> "fitbit",
           status |-> "completed", file_name |-> "fitbit_export",
           records_processed |-> 3, records_created |-> 2, records_skipped |-> 1,
           errors |-> << >>, started_at |-> 1, completed_at |-> 12])
    @@
    (FixedBatchId :>
          [user |-> "u1", batch_id |-> FixedBatchId, source |-> "oura",
           status |-> "completed", file_name |-> "shared_export",
           records_processed |-> 4, records_created |-> 3, records_skipped |-> 1,
           errors |-> [k \in 1..ErrorCap |-> "Error parsing file"],
           started_at |-> 13, completed_at |-> 25])

IngestedSummaries ==
    { (<< "u1", 1 >> :> s1) @@ (<< "u1", 2 >> :> s2) :
        s1 \in { summary_save(x, 24) :
                   x \in populate_metrics(
                           populate_nutrition(EmptySummary, IngestedStore, "u1", 1),
                           IngestedStore, "u1", 1) },
        s2 \in { summary_save(
                    populate_sleep(EmptySummary, IngestedStore, "u1", 2), 11) } }

\* the database after those two calls
IngestedDatabase ==
    /\ DataImportLog = IngestedLogs
    /\ store = IngestedStore
    /\ DailySummary \in IngestedSummaries
    /\ now = 26
    /\ nextBatch = 2
    /\ nextRow = 6

\* a fresh process on that database
InitSummary ==
    /\ IngestedDatabase
    /\ pend = [p \in Procs |-> {}]
    /\ pc = [p \in Procs |-> "idle"]
    /\ self = [p \in Procs |-> [user |-> NoneStr, batch_id |-> NoneInt,
                                import_log |-> NoneInt]]
    /\ loc = [p \in Procs |-> NoLocals]
    /\ calls = 0
    /\ fx = NoFile

\* summaries rebuilt on their own while rows are removed or edited through
\* the API
NextSummary ==
    \/ \E u \in Users, d \in Dates : rebuild(u, d)
    \/ \E r \in store : destroy(r)
    \/ \E r \in store : partial_update(r, 0)

SpecSummary == InitSummary /\ [][NextSummary]_vars

\* the entries a steps file can hold: a dateTime of day 1 or 2, unparsable or
\* absent; a value that is a number or not
StepsEntries ==
    [dateTime : {Ok(1), Ok(2), Garbage, Missing},
     value : {Ok(60000), Ok(100000), Ok(0 - 40000), Garbage}]

StepsFiles == UNION { [1..n -> StepsEntries] : n \in 0..MaxSamples }

\* well-formed entries of an active-minutes file and of a sleep file
GoodActive(k) == [dateTime |-> Ok(k), value |-> Ok(30)]

GoodSleep(k) ==
    [startTime |-> Ok(k), endTime |-> Ok(k), dateOfSleep |-> Ok(k),
     duration |-> Ok(28800000), logId |-> Ok(k)]

\* files of FileLen entries, all well formed or with one field of one entry
\* absent or not convertible
ActiveFiles ==
    { [k \in 1..FileLen |-> GoodActive(k)] } \cup
    { [k \in 1..FileLen |->
         IF k = pos THEN [GoodActive(k) EXCEPT ![field] = raw] ELSE GoodActive(k)] :
        pos \in 1..FileLen, field \in {"dateTime", "value"},
        raw \in {Missing, Garbage} }

SleepFiles ==
    { [k \in 1..FileLen |-> GoodSleep(k)] } \cup
    { [k \in 1..FileLen |->
         IF k = pos THEN [GoodSleep(k) EXCEPT ![field] = raw] ELSE GoodSleep(k)] :
        pos \in 1..FileLen,
        field \in {"startTime", "endTime", "dateOfSleep", "duration"},
        raw \in {Missing, Garbage} }

\* entries of a resting heart rate file and of a raw heart rate file
RestingEntry(bpm) == [dateTime |-> Ok(1), value |-> Ok(bpm)]

RestingFiles == { << RestingEntry(60) >>, << RestingEntry(0), RestingEntry(60) >> }

\* the files of Global Export Data: a name with what the file holds
GlobalExportData ==
    ({StepsName} \X StepsFiles) \cup
    ({SleepName} \X SleepFiles) \cup
    ({VeryActiveName, ModeratelyActiveName, LightlyActiveName, SedentaryName}
        \X ActiveFiles) \cup
    ({RestingHeartRateName, HeartRateName, CaloriesName} \X RestingFiles)

\* the rows a UserSleepScores file can hold: a score_time of day 1, not
\* parsable or NaN; a resting_heart_rate that is a number, a text or NaN
UserSleepScoresRows ==
    [score_time : {Ok(1), Garbage, Missing},
     resting_heart_rate : {Ok(60), Ok(20), Ok(300), Ok(0), Garbage, Missing}]

UserSleepScoresFiles ==
    UNION { [1..n -> UserSleepScoresRows] : n \in 0..MaxRows }


\* FitbitAdapter.parse has reset self.errors and routed one file to its parser
InitParse ==
    /\ DataImportLog = << >>
    /\ store = {}
    /\ DailySummary = << >>
    /\ pend = [p \in Procs |-> {}]
    /\ pc = [p \in Procs |-> "idle"]
    /\ self = [p \in Procs |-> [user |-> NoneStr, batch_id |-> NoneInt,
                                import_log |-> NoneInt]]
    /\ loc = [p \in Procs |-> NoLocals]
    /\ now = 1
    /\ nextBatch = 1
    /\ nextRow = 1
    /\ calls = 0
    /\ \/ \E x \in GlobalExportData : fx = Open(x[1], _parse_file(x[1]), x[2])
       \/ \E f \in UserSleepScoresFiles :
             fx = Open(<< "usersleepscores_", Stamp, ".csv" >>,
                       Route("user_sleep_scores", NoneStr), f)

NextParse ==
    \/ _parse_steps_json
    \/ _parse_active_minutes_json
    \/ _parse_sleep_json
    \/ _parse_user_sleep_scores_csv

SpecParse == InitParse /\ [][NextParse]_vars

\* one caller whose process can die at any step of a call and start again
NextCrash ==
    \/ \E path \in {"fitbit_export", "shared_export", "oura_export"} :
          ingest_file(1, "u1", path, NoneStr)
    \/ resolve(1)
    \/ process_parse(1)
    \/ save_get(1)
    \/ save_create(1)
    \/ atomic_commit(1)
    \/ build_summary(1)
    \/ finalize(1)
    \/ crash(1)

SpecCrash == Init /\ [][NextCrash]_vars

\* two callers whose ingestions of the sleep export of one user overlap
NextConcSleep ==
    \E p \in Procs :
       \/ ingest_file(p, "u1", "sleep_export", "fitbit")
       \/ resolve(p)
       \/ process_parse(p)
       \/ save_get(p)
       \/ save_create(p)
       \/ atomic_commit(p)
       \/ build_summary(p)
       \/ finalize(p)

SpecConcSleep == Init /\ [][NextConcSleep]_vars

\* one caller whose final update of the import log can be refused
NextFault ==
    \/ \E path \in {"fitbit_export", "oura_export", "notes.txt"},
          source \in {NoneStr, "oura"} :
          ingest_file(1, "u1", path, source)
    \/ resolve(1)
    \/ process_parse(1)
    \/ save_get(1)
    \/ save_create(1)
    \/ atomic_commit(1)
    \/ build_summary(1)
    \/ finalize(1)
    \/ final_update_raises(1)

SpecFault == Init /\ [][NextFault]_vars

\* one caller ingesting export directories of one user
NextExport ==
    \/ \E path \in {"activity_export", "sleep_export"} :
          ingest_file(1, "u1", path, NoneStr)
    \/ resolve(1)
    \/ process_parse(1)
    \/ save_get(1)
    \/ save_create(1)
    \/ atomic_commit(1)
    \/ build_summary(1)
    \/ finalize(1)

SpecExport == Init /\ [][NextExport]_vars

\* ------------------------------------------------------------------------
\* Properties
\* ------------------------------------------------------------------------
Registered(name) == \E i \in 1..Len(_adapters) : _adapters[i] = name

\* two rows of one model with the same natural key
SameKey(r1, r2) ==
    /\ r1.model = r2.model
    /\ r1.user = r2.user
    /\ r1.source = r2.source
    /\ CASE r1.model = "HealthRecord" ->
              r1.metric_type = r2.metric_type /\ r1.timestamp = r2.timestamp
         [] r1.model = "SleepLog" -> r1.source_log_id = r2.source_log_id
         [] OTHER -> r1.date = r2.date

RowsOf(b) == { r \in store : r.import_batch_id = b }

Batches == DOMAIN DataImportLog

Ended(p) == pc[p] = "done"

\* C1: when an export is ingested again by the same user with the same
\* adapter after an earlier ingestion of it completed, the second batch
\* creates no row and skips every parsed record.
C1_IdempotentReingest ==
    \A b1 \in Batches, b2 \in Batches :
       LET l1 == DataImportLog[b1]
           l2 == DataImportLog[b2]
       IN  ( /\ l1.status = "completed" /\ l2.status = "completed"
             /\ l1.completed_at < l2.started_at
             /\ l1.user = l2.user /\ l1.file_name = l2.file_name
             /\ l1.source = l2.source )
           => /\ l2.records_created = 0
              /\ l2.records_skipped = l2.records_processed
              /\ l2.records_processed = l1.records_processed
              /\ RowsOf(b2) = {}

C1_Witness ==
    \E b1 \in Batches, b2 \in Batches :
       LET l1 == DataImportLog[b1]
           l2 == DataImportLog[b2]
       IN  /\ l1.status = "completed" /\ l2.status = "completed"
           /\ l1.completed_at < l2.started_at
           /\ l1.user = l2.user /\ l1.file_name = l2.file_name
           /\ l1.source = l2.source
           /\ l1.records_created >= 2
           /\ l2.records_skipped = 3
           /\ Cardinality(store) = l1.records_created

\* C2: with ingestion calls run one after another, no two rows of a model
\* have the same natural key, committed or written in the open transaction.
C2_UniqueNaturalKey ==
    \A r1 \in store \cup pend[1], r2 \in store \cup pend[1] :
       SameKey(r1, r2) => r1 = r2

C2_Witness ==
    /\ Ended(1)
    /\ Cardinality(Batches) = 2
    /\ \A b \in Batches : DataImportLog[b].status = "completed"
    /\ \E b \in Batches : /\ DataImportLog[b].records_skipped >= 1
                          /\ DataImportLog[b].records_created >= 1
    /\ Cardinality(store) >= 3

\* C3: two overlapping ingestion calls that carry a record with the same
\* natural key never leave two committed rows with that key.
C3_NoConcurrentDuplicate ==
    \A r1 \in store, r2 \in store :
       (SameKey(r1, r2) /\ r1.import_batch_id # r2.import_batch_id) => FALSE

C5_AlwaysReturnsBatch ==
    \A p \in Procs :
       /\ pc[p] # "raised"
       /\ Ended(p) =>
             /\ loc[p].ret = self[p].batch_id
             /\ self[p].batch_id \in Batches
             /\ DataImportLog[self[p].batch_id].status \in {"completed", "failed"}
             /\ DataImportLog[self[p].batch_id].completed_at # NoneInt

\* the conditions under which ingest_file finds no adapter
Unresolvable(source, path) ==
    IF Truthy(source) THEN ~ Registered(source)
    ELSE \A i \in 1..Len(_adapters) : ~ can_handle(_adapters[i], path)

\* C6: an ingest_file call for which no adapter can be resolved ends with
\* the batch failed and the reason as its only error, parse never invoked,
\* counts 0, no row of the batch and no summary written during the call.
C6_UnresolvedFails ==
    \A p \in Procs :
       ( /\ Ended(p) /\ loc[p].call = "ingest_file"
         /\ Unresolvable(loc[p].source, loc[p].path) )
       => LET b == self[p].batch_id
              l == DataImportLog[b]
          IN  /\ l.status = "failed"
              /\ l.errors = << "No adapter found for path" >>
              /\ loc[p].parse_calls = 0
              /\ l.records_processed = 0
              /\ l.records_created = 0
              /\ l.records_skipped = 0
              /\ RowsOf(b) = {} /\ pend[p] = {}
              /\ \A k \in DOMAIN DailySummary :
                    DailySummary[k].updated_at < l.started_at

C6_Witness ==
    /\ Ended(1) /\ loc[1].call = "ingest_file"
    /\ loc[1].source = "garmin" /\ loc[1].path = "fitbit_export"
    /\ store # {}
    /\ DOMAIN DailySummary # {}

\* C7: once ingest_file has resolved, a registered explicit source name is
\* the adapter used, whatever the detectors say of the path, and it is the
\* adapter whose parse result is processed; an explicit name that is not
\* registered resolves to nothing, even when a detector accepts the path.
C7_ExplicitSourceWins ==
    \A p \in Procs :
       ( /\ loc[p].call = "ingest_file"
         /\ Truthy(loc[p].source)
         /\ pc[p] \notin {"idle", "resolve"} )
       => /\ Registered(loc[p].source) =>
                /\ loc[p].adapter = loc[p].source
                /\ DataImportLog[self[p].batch_id].source = loc[p].source
                /\ loc[p].parse_calls = 1 =>
                      \A i \in 1..Len(loc[p].result.records) :
                         loc[p].result.records[i].source = loc[p].source
          /\ ~ Registered(loc[p].source) =>
                loc[p].adapter = NoneStr /\ loc[p].parse_calls = 0

C7_Witness ==
    /\ Ended(1) /\ loc[1].call = "ingest_file"
    /\ loc[1].source = "fitbit" /\ loc[1].path = "oura_export"
    /\ ~ can_handle("fitbit", loc[1].path) /\ can_handle("oura", loc[1].path)
    /\ loc[1].adapter = "fitbit"
    /\ \E r \in RowsOf(self[1].batch_id) : r.source = "fitbit"

\* C8: saving a record whose natural key matches a row is a skip: the step
\* counts one skip, creates nothing and leaves every row as it was; no step
\* changes or removes a committed row.
C8_SkipLeavesRow ==
    [][ \A p \in Procs :
          ( /\ pc[p] = "save"
            /\ loc[p].i <= Len(loc[p].result.records)
            /\ Matches(p, loc[p].result.records[loc[p].i]) # {}
            /\ loc'[p] # loc[p] )
          => /\ store' = store
             /\ pend' = pend
             /\ loc'[p].records_skipped = loc[p].records_skipped + 1
             /\ loc'[p].records_created = loc[p].records_created
             /\ loc'[p].i = loc[p].i + 1
        /\ store \subseteq store' ]_vars

C8_Witness ==
    /\ pc[1] = "save"
    /\ loc[1].i = 3
    /\ loc[1].records_skipped = 1
    /\ loc[1].result.records[2].value = 7
    /\ \E r \in pend[1] : KeyMatch(r, self[1].user, loc[1].result.records[2])
                          /\ r.value = 5

\* C9: a failing save of one record counts one skip and one error string,
\* the loop goes on to the next record with the rows created so far kept,
\* and when the batch completes every record was counted and every row the
\* batch created is in the store.
C9_RecordFaultIsolated ==
    [][ \A p \in Procs :
          /\ ( /\ pc[p] = "create" /\ pc'[p] # "create"
               /\ CreateFails(loc[p].result.records[loc[p].i])
               /\ Matches(p, loc[p].result.records[loc[p].i]) = {} )
             => /\ pc'[p] = "save"
                /\ loc'[p].records_skipped = loc[p].records_skipped + 1
                /\ Len(loc'[p].result.errors) = Len(loc[p].result.errors) + 1
                /\ loc'[p].i = loc[p].i + 1
                /\ loc'[p].records_created = loc[p].records_created
                /\ pend' = pend /\ store' = store
          /\ ( pc[p] = "summaries" /\ pc'[p] = "done" )
             => LET l == DataImportLog'[self[p].batch_id] IN
                /\ l.status = "completed"
                /\ l.records_created + l.records_skipped
                      = Len(loc[p].result.records)
                /\ Cardinality({ r \in store' : r.import_batch_id = l.batch_id })
                      = l.records_created ]_vars

C9_Witness ==
    /\ Ended(1)
    /\ loc[1].path = "shared_export"
    /\ DataImportLog[self[1].batch_id].status = "completed"
    /\ DataImportLog[self[1].batch_id].records_created = 3
    /\ DataImportLog[self[1].batch_id].records_skipped = 1
    /\ DataImportLog[self[1].batch_id].errors = << "IntegrityError" >>
    /\ Cardinality(RowsOf(self[1].batch_id)) = 3

\* the summary row holds what the rows now stored for (user, d) give
Current(s, user, d) ==
    /\ NutritionOf(store, user, d) # {} =>
          s.calories \in { n.value : n \in NutritionOf(store, user, d) }
    /\ FirstValues(store, user, d, "steps") # {} =>
          s.steps \in FirstValues(store, user, d, "steps")
    /\ { r \in SleepLog(store) : r.user = user /\ r.date = d } # {} =>
          s.sleep_duration_min # NoneInt

\* C10: when a call has returned a completed batch, the summary of every
\* date carried by a row the batch created was rebuilt during the call from
\* the rows then stored, and no other summary was written during the call.
C10_TouchedDatesRebuilt ==
    \A p \in Procs :
       ( Ended(p) /\ DataImportLog[self[p].batch_id].status = "completed" )
       => LET l == DataImportLog[self[p].batch_id]
              touched == { r.date : r \in RowsOf(l.batch_id) } \ {NoneInt}
          IN  \A u \in Users, d \in Dates :
                 IF u = l.user /\ d \in touched
                 THEN /\ << u, d >> \in DOMAIN DailySummary
                      /\ DailySummary[<< u, d >>].updated_at > l.started_at
                      /\ DailySummary[<< u, d >>].updated_at < l.completed_at
                      /\ Current(DailySummary[<< u, d >>], u, d)
                 ELSE << u, d >> \in DOMAIN DailySummary =>
                         DailySummary[<< u, d >>].updated_at < l.started_at

\* C11: a rebuild that fails for one touched date changes nothing of the
\* batch: the loop goes on with the next date, the rows and the counts stay,
\* the log is untouched, and when the batch is finalized it is completed
\* with those counts and the summary of every touched date whose rebuild
\* does not fail was rebuilt during the call.
C11_SummaryFaultIsolated ==
    [][ \A p \in Procs :
          /\ ( /\ pc[p] = "summaries" /\ loc[p].todo # << >>
               /\ BuildRaises(store, self[p].user, Head(loc[p].todo))
               /\ loc'[p] # loc[p] )
             => /\ pc'[p] = "summaries"
                /\ loc'[p].todo = Tail(loc[p].todo)
                /\ loc'[p].records_created = loc[p].records_created
                /\ loc'[p].records_skipped = loc[p].records_skipped
                /\ store' = store
                /\ DataImportLog' = DataImportLog
          /\ ( pc[p] = "summaries" /\ pc'[p] = "done" )
             => LET l == DataImportLog'[self[p].batch_id] IN
                /\ l.status = "completed"
                /\ l.records_created = loc[p].records_created
                /\ l.records_skipped = loc[p].records_skipped
                /\ Cardinality({ r \in store' : r.import_batch_id = l.batch_id })
                      = l.records_created
                /\ \A d \in loc[p].dates_affected :
                      ~ BuildRaises(store, l.user, d)
                         => /\ << l.user, d >> \in DOMAIN DailySummary
                            /\ DailySummary[<< l.user, d >>].updated_at
                                  > l.started_at ]_vars

C11_Witness ==
    /\ Ended(1)
    /\ DataImportLog[self[1].batch_id].status = "completed"
    /\ DataImportLog[self[1].batch_id].records_created = 3
    /\ loc[1].dates_affected = {1, 2}
    /\ BuildRaises(store, self[1].user, 1)
    /\ << self[1].user, 2 >> \in DOMAIN DailySummary
    /\ DailySummary[<< self[1].user, 2 >>].sleep_score = 80
    /\ DailySummary[<< self[1].user, 2 >>].updated_at
          > DataImportLog[self[1].batch_id].started_at

C13_ErrorsCapped ==
    \A b \in Batches : Len(DataImportLog[b].errors) <= 100

C13_Witness ==
    /\ Ended(1)
    /\ Len(loc[1].result.errors) > 100
    /\ loc[1].result.errors[Len(loc[1].result.errors)] = "IntegrityError"
    /\ Len(DataImportLog[self[1].batch_id].errors) = 100
    /\ DataImportLog[self[1].batch_id].status = "completed"

\* C15: with no explicit source, the adapter ingest_file resolves is the
\* earliest registered one whose detector accepts the path, also when a
\* later one accepts it too, and none when no detector accepts it.
C15_FirstRegisteredWins ==
    \A p \in Procs :
       ( /\ loc[p].call = "ingest_file"
         /\ ~ Truthy(loc[p].source)
         /\ pc[p] \notin {"idle", "resolve"} )
       => LET A == { i \in 1..Len(_adapters) :
                       can_handle(_adapters[i], loc[p].path) }
          IN  IF A = {} THEN loc[p].adapter = NoneStr
              ELSE \E i \in A : /\ loc[p].adapter = _adapters[i]
                                 /\ \A j \in A : i <= j

C15_Witness ==
    /\ Ended(1) /\ loc[1].call = "ingest_file"
    /\ ~ Truthy(loc[1].source)
    /\ loc[1].path = "shared_export"
    /\ can_handle("fitbit", loc[1].path) /\ can_handle("oura", loc[1].path)
    /\ loc[1].adapter = "fitbit"
    /\ \E r \in RowsOf(self[1].batch_id) : r.source = "fitbit"

\* C14: the rows of a batch become visible all together, when the save
\* loop has ended: while a call is saving, no row of its batch is visible;
\* a crash during the save phase leaves none of them, and nothing of them
\* pending; rows appear in the store only as the whole set of rows the
\* batch created.
C14_AllOrNothing ==
    [][ /\ \A p \in Procs :
             LET b == self[p].batch_id
                 rows == { r \in store' : r.import_batch_id = b }
             IN  /\ pc'[p] \in {"save", "create"} => rows = {}
                 /\ ( pc[p] \in {"save", "create"} /\ pc'[p] = "crashed" )
                       => rows = {} /\ pend'[p] = {}
        /\ store' # store =>
             \E p \in Procs :
                /\ pc[p] = "save" /\ pc'[p] = "summaries"
                /\ store' \ store = pend[p]
                /\ store' \ store
                      = { r \in store' : r.import_batch_id = self[p].batch_id }
                /\ Cardinality(store' \ store) = loc[p].records_created ]_vars

C14_Witness ==
    /\ pc[1] = "crashed"
    /\ loc[1].records_created = 2
    /\ loc[1].i = 4 /\ Len(loc[1].result.records) = 4
    /\ RowsOf(self[1].batch_id) = {}
    /\ pend[1] = {}
    /\ DataImportLog[self[1].batch_id].status = "processing"
    /\ store # {}

\* the data fields of a summary row: all but the time of the save
Data(s) == [s EXCEPT !.updated_at = NoneInt]

\* C16: two rebuilds of a summary in succession, with no row changed in
\* between, leave the same data fields, also when several rows are
\* candidates for one metric of the date.
C16_RebuildIdempotent ==
    \A u \in Users, d \in Dates :
       LET old == IF << u, d >> \in DOMAIN DailySummary
                  THEN DailySummary[<< u, d >>] ELSE EmptySummary
       IN  ~ BuildRaises(store, u, d) =>
              \A s1 \in BuildOutcomes(old, store, u, d) :
                 \A s2 \in BuildOutcomes(s1, store, u, d) :
                    Data(s2) = Data(s1)

\* C17: a rebuild is a full recompute: the row it saves has in every data
\* field the value a summary built from nothing on the rows now stored has;
\* a field whose row is gone, or whose inputs are gone, is reset.
C17_FullRecompute ==
    [][ \A key \in DOMAIN DailySummary' :
          ( /\ key \in DOMAIN DailySummary
            /\ DailySummary'[key].updated_at # DailySummary[key].updated_at )
          => Data(DailySummary'[key]) \in
                { Data(s) : s \in BuildOutcomes(EmptySummary, store',
                                                key[1], key[2]) } ]_vars

\* C18: the completeness of every saved summary is the integer part of
\* 100 * k / 6, k the number of non-null fields among calories, steps, sleep
\* duration, resting heart rate, HRV and sleep score; it lies in 0..100 and
\* is 50 when k = 3.
C18_Completeness ==
    \A key \in DOMAIN DailySummary :
       LET s == DailySummary[key]
           k == Cardinality({ f \in {"calories", "steps", "sleep_duration_min",
                                     "resting_hr", "hrv_rmssd", "sleep_score"} :
                               s[f] # NoneInt })
       IN  /\ 6 * s.data_completeness <= 100 * k
           /\ 100 * k < 6 * (s.data_completeness + 1)
           /\ s.data_completeness \in 0..100
           /\ k = 3 => s.data_completeness = 50

C18_Witness ==
    \E key \in DOMAIN DailySummary :
       LET s == DailySummary[key] IN
       /\ s.calories # NoneInt /\ s.steps # NoneInt /\ s.resting_hr # NoneInt
       /\ s.sleep_duration_min = NoneInt /\ s.hrv_rmssd = NoneInt
       /\ s.sleep_score = NoneInt
       /\ s.data_completeness = 50
       /\ s.updated_at # NoneInt

\* C19: a day whose step total is outside 0..100000 gets no steps record,
\* its total is not clamped into a record, and every other day of the file
\* whose total is in range gets one record carrying its total.
C19_OutOfRangeRejected ==
    ( /\ fx.parser = "steps" /\ fx.done
      /\ \A k \in 1..Len(fx.entries) : fx.entries[k].dateTime.kind # "missing" )
    => /\ \A d \in Dates :
             LET K == EntriesOn(fx.entries, d)
                 total == SumSteps(fx.entries, K)
                 recs == { n \in 1..Len(fx.records) : fx.records[n].date = d }
             IN  IF K # {} /\ 0 <= total /\ total <= 100000
                 THEN /\ Cardinality(recs) = 1
                      /\ \A n \in recs : fx.records[n].value = total
                 ELSE recs = {}
       /\ \A n \in 1..Len(fx.records) :
             /\ fx.records[n].metric_type = "steps"
             /\ fx.records[n].value \in 0..100000

C19_Witness ==
    /\ fx.parser = "steps" /\ fx.done
    /\ SumSteps(fx.entries, EntriesOn(fx.entries, 1)) > 100000
    /\ EntriesOn(fx.entries, 2) # {}
    /\ Len(fx.records) = 1
    /\ fx.records[1].date = 2
    /\ fx.records[1].value = 60000
    /\ fx.errors = << >>

\* an entry whose fields are convertible and whose required fields (those
\* read as entry[...]) are present
WellFormed(e) ==
    \A field \in DOMAIN e :
       \/ e[field].kind = "ok"
       \/ e[field].kind = "missing" /\ field \in {"duration", "logId"}

\* C20: a sleep or active-minutes file with exactly one malformed entry,
\* at any position and of any kind, is parsed into one record per
\* well-formed entry (nine of ten) and exactly one error string.
C20_OneBadEntryOneError ==
    ( /\ fx.parser \in {"sleep", "active_minutes"} /\ fx.done
      /\ Cardinality({ k \in 1..Len(fx.entries) : ~ WellFormed(fx.entries[k]) }) = 1 )
    => /\ Len(fx.records) = Len(fx.entries) - 1
       /\ Len(fx.errors) = 1

NumericOn(entries, d) ==
    { k \in EntriesOn(entries, d) : entries[k].value.kind = "ok" }

\* C22: a steps record carries, for its date, the sum of the numeric sample
\* values as its value and the number of numeric samples as its
\* records_count: a sample whose value is not a number is in neither.
C22_StepsSumAndCount ==
    (fx.parser = "steps" /\ fx.done) =>
       \A n \in 1..Len(fx.records) :
          LET rec == fx.records[n]
              K == NumericOn(fx.entries, rec.date)
          IN  /\ rec.value = SumSteps(fx.entries, K)
              /\ rec.metadata.records_count = Cardinality(K)

\* C23: no heart rate or resting heart rate record that a parser yields
\* carries a value outside 30..250.
C23_HeartRateInRange ==
    \A n \in 1..Len(fx.records) :
       fx.records[n].metric_type \in {"heart_rate", "resting_heart_rate"} =>
          validate_heart_rate(fx.records[n].value)

\* C24: only the raw heart rate files and the calorie files are passed; a
\* resting heart rate file is routed to the resting heart rate parser.
C24_RestingHeartRateRouted ==
    /\ fx.parser = NoneStr /\ fx.name # << >> =>
          fx.name \in {HeartRateName, CaloriesName}
    /\ fx.name = RestingHeartRateName => fx.parser = "resting_hr"

\* the save loop of lines 138-152 run by one caller on the rows S: the rows
\* after the records were saved in their order
RECURSIVE SaveLoop(_, _, _)
SaveLoop(S, user, records) ==
    IF records = << >> THEN S
    ELSE LET record == Head(records)
             skip == \/ ModelOf(record) = NoneStr
                     \/ \E r \in S : KeyMatch(r, user, record)
                     \/ CreateFails(record)
         IN  IF skip THEN SaveLoop(S, user, Tail(records))
             ELSE SaveLoop(S \cup { NewRow(Cardinality(S) + 1, user, 1, record) },
                           user, Tail(records))

\* the field values of a set of rows, without primary keys and batch ids
Fields(S) == { [r EXCEPT !.id = 0, !.import_batch_id = 0] : r \in S }

\* C25: when the first ingestion of an export directory has completed, the
\* persisted rows with their field values and the created count are those
\* that every enumeration order of the directory's files gives.
C25_OrderIndependent ==
    \A b \in Batches :
       LET log == DataImportLog[b] IN
       (/\ log.status = "completed"
        /\ calls = 1
        /\ GlobalExportFolder(log.file_name) # {}) =>
          \A x \in _parse_directory(log.file_name) :
             /\ Fields(store) = Fields(SaveLoop({}, log.user, x.records))
             /\ log.records_created =
                   Cardinality(SaveLoop({}, log.user, x.records))

\* the *_minutes field of a DailySummary for an activity level
MinutesOf(s, level) ==
    CASE level = "very_active" -> s.very_active_minutes
      [] level = "moderately_active" -> s.moderately_active_minutes
      [] level = "lightly_active" -> s.lightly_active_minutes
      [] OTHER -> s.sedentary_minutes

\* C28: when the ingestion of the activity export has completed, the store
\* holds an active_minutes row of day 1 for each of the four levels and the
\* summary of day 1 holds each level's minutes in the level's field.
C28_OneRowPerLevel ==
    \A b \in Batches :
       LET log == DataImportLog[b] IN
       (log.status = "completed" /\ log.file_name = "activity_export") =>
          \A x \in GlobalExportFolder("activity_export") :
             LET level == _parse_file(x[1]).activity_level
                 minutes == x[2][1].value.v
             IN  /\ \E r \in HealthRecord(store) :
                        /\ r.user = log.user
                        /\ r.metric_type = "active_minutes"
                        /\ r.activity_level = level
                        /\ r.value = minutes
                 /\ << log.user, 1 >> \in DOMAIN DailySummary
                 /\ MinutesOf(DailySummary[<< log.user, 1 >>], level) = minutes

\* C26: on every completed batch records_processed is records_created plus
\* records_skipped, and records_created is the number of rows of the store
\* that carry the batch's id.
C26_CountsAddUp ==
    \A b \in Batches :
       DataImportLog[b].status = "completed" =>
          /\ DataImportLog[b].records_processed =
                DataImportLog[b].records_created + DataImportLog[b].records_skipped
          /\ DataImportLog[b].records_created = Cardinality(RowsOf(b))

\* a completed batch that created some records and skipped others
C26_Witness ==
    \E b \in Batches :
       /\ DataImportLog[b].status = "completed"
       /\ DataImportLog[b].records_created = 3
       /\ DataImportLog[b].records_skipped = 1
       /\ Cardinality(RowsOf(b)) = 3

\* C27: a batch whose status is failed has no row in the store that carries
\* its batch id.
C27_FailedHasNoRows ==
    \A b \in Batches :
       DataImportLog[b].status = "failed" => RowsOf(b) = {}

\* C29: the sleep sessions of entries without a logId are keyed with the
\* empty id, so the store never holds two of them for one user and source,
\* and a completed batch has created a row for at most one of them and
\* skipped the others without an error.
C29_OneIdlessSession ==
    /\ \A r1 \in SleepLog(store), r2 \in SleepLog(store) :
          (/\ r1.source_log_id = "" /\ r2.source_log_id = ""
           /\ r1.user = r2.user /\ r1.source = r2.source) => r1 = r2
    /\ \A b \in Batches :
          (/\ DataImportLog[b].status = "completed"
           /\ DataImportLog[b].file_name = "sleep_export") =>
             /\ DataImportLog[b].records_created <= 1
             /\ DataImportLog[b].records_skipped =
                   2 - DataImportLog[b].records_created
             /\ DataImportLog[b].errors = << >>

\* C30: every rebuild of the summary loop saves the summary of its date
\* populated from the store: the calories are those of one of the day's
\* NutritionLog rows, and the steps and the resting heart rate are those of
\* the day's records, also when the day has NutritionLog rows of two sources.
C30_RebuildPopulates ==
    [][(/\ pc[1] = "summaries"
        /\ loc[1].todo # << >>
        /\ loc'[1].todo = Tail(loc[1].todo)) =>
          LET user == self[1].user
              d == Head(loc[1].todo)
              s == DailySummary'[<< user, d >>]
          IN  /\ s.updated_at = now
              /\ NutritionOf(store, user, d) # {} =>
                    s.calories \in { n.value : n \in NutritionOf(store, user, d) }
              /\ FirstValues(store, user, d, "steps") # {} =>
                    s.steps \in FirstValues(store, user, d, "steps")
              /\ FirstValues(store, user, d, "resting_heart_rate") # {} =>
                    s.resting_hr \in FirstValues(store, user, d, "resting_heart_rate")
       ]_vars

====
